---- MODULE Spec2Model ----
(***************************************************************************)
(* Model of the tree-building and aggregation engine of tree-cli:          *)
(* process_directory_entries, build_directory_tree, print_tree and         *)
(* list_files of src/list_files.rs, over the TreeNode of src/tree.rs.      *)
(*                                                                         *)
(* A path is a slot number of a small directory skeleton; a file name is   *)
(* the sequence of its bytes, so that "starts with '.'", the extension and *)
(* the ordering of names are computed as the code computes them.           *)
(***************************************************************************)
EXTENDS Integers, Sequences, FiniteSets, TLC

VARIABLES
    present,      \* the paths that exist on disk
    unreadable,   \* directories on which fs::read_dir fails
    nometa,       \* entries on which fs::metadata fails
    cfg,          \* ext, ignore_dirs, min_size, include_children (+ the spec's max_size, max_depth)
    pc,           \* position of list_files
    stack,        \* the activations of build_directory_tree, innermost last
    ret,          \* the value the last finished activation returned
    visited,      \* every path build_directory_tree was invoked on
    diag,         \* the lines written to the error stream
    out,          \* the lines written to standard output
    stats,        \* the shared FileStats
    mode,         \* the renderer the run uses, "unset" until the flags are first read
    prev          \* result of the run before the unreadable directories were removed

vars == <<present, unreadable, nometa, cfg, pc, stack, ret, visited, diag, out, stats, mode, prev>>

----------------------------------------------------------------------------
(* Bounds of the model. *)

\* min_size is drawn from 0..MaxMinSize
MaxMinSize == 2
\* at most this many directories are unreadable
MaxUnreadable == 1

----------------------------------------------------------------------------
(* The directory skeleton the runs are drawn from.                          *)
(*   .            (0)                                                       *)
(*   |- b.t       (1)  file, 1 byte                                         *)
(*   |- s/        (2)                                                       *)
(*   |   |- c.t   (6)  file, 2 bytes                                        *)
(*   |   |- .e.t  (7)  hidden file, 2 bytes                                 *)
(*   |   `- n/    (8)                                                       *)
(*   |       `- d.t (9) file, 1 byte                                        *)
(*   |- a/        (3)                                                       *)
(*   |   |- s     (10) file, 2 bytes                                        *)
(*   |   `- f.l   (11) file, 1 byte                                         *)
(*   `- .g/       (4)  hidden directory                                     *)
(*       `- h.t   (5)  file, 2 bytes                                        *)

\* the byte '.'
Dot == 46

Root == 0

Paths == 0..11

Parent == [p \in Paths |->
    CASE p \in {1, 2, 3, 4} -> 0
      [] p = 5 -> 4
      [] p \in {6, 7, 8} -> 2
      [] p = 9 -> 8
      [] p \in {10, 11} -> 3
      [] OTHER -> 0]

\* bytes: '.'=46 'a'=97 'b'=98 'c'=99 'd'=100 'e'=101 'f'=102 'g'=103 'h'=104
\*        'l'=108 'n'=110 's'=115 't'=116
PathName == [p \in Paths |->
    CASE p = 0 -> <<46>>
      [] p = 1 -> <<98, 46, 116>>
      [] p = 2 -> <<115>>
      [] p = 3 -> <<97>>
      [] p = 4 -> <<46, 103>>
      [] p = 5 -> <<104, 46, 116>>
      [] p = 6 -> <<99, 46, 116>>
      [] p = 7 -> <<46, 101, 46, 116>>
      [] p = 8 -> <<110>>
      [] p = 9 -> <<100, 46, 116>>
      [] p = 10 -> <<115>>
      [] p = 11 -> <<102, 46, 108>>]

RegularFiles == {1, 5, 6, 7, 9, 10, 11}

Directories == Paths \ RegularFiles

FileLen == [p \in Paths |-> IF p \in {1, 9, 11} THEN 1 ELSE 2]

\* the values of the configuration
Exts == {<<>>, <<116>>}
IgnoreLists == {<<>>, <<<<115>>>>, <<<<110>>, <<97>>>>}
MaxSizes == {1, 2}
MaxDepths == {0, 1}
\* the entries that may be dangling links, on which fs::metadata fails
BrokenLinks == {1, 6}

\* number of directory levels between the root and p
RECURSIVE Depth(_)
Depth(p) == IF p = Root THEN 0 ELSE 1 + Depth(Parent[p])

\* the ancestors of p, p excluded
RECURSIVE Ancestors(_)
Ancestors(p) == IF p = Root THEN {} ELSE {Parent[p]} \cup Ancestors(Parent[p])

----------------------------------------------------------------------------
(* std::path and ordering helpers. *)

None == [type |-> "None"]
NoRet == [type |-> "NoRet"]

\* Path::file_name: None for the root path "."
file_name(p) == IF p = Root THEN None ELSE [type |-> "Some", v |-> PathName[p]]

\* index of the last '.' of a name, 0 when there is none
RECURSIVE LastDot(_, _)
LastDot(n, i) == IF i = 0 THEN 0 ELSE IF n[i] = Dot THEN i ELSE LastDot(n, i - 1)

\* Path::extension: the bytes after the last '.', None without a '.' or when
\* the only '.' is the leading one
extension(n) ==
    LET i == LastDot(n, Len(n))
    IN IF i <= 1 THEN None ELSE [type |-> "Some", v |-> SubSeq(n, i + 1, Len(n))]

\* lexicographic byte order of two names (Ord for OsStr)
RECURSIVE NameLess(_, _)
NameLess(a, b) ==
    IF a = <<>> THEN b # <<>>
    ELSE IF b = <<>> THEN FALSE
    ELSE IF Head(a) # Head(b) THEN Head(a) < Head(b)
    ELSE NameLess(Tail(a), Tail(b))

\* a.file_name().cmp(&b.file_name()) == Less, for two paths
PathLess(a, b) == NameLess(PathName[a], PathName[b])

RECURSIVE SumSizes(_)
SumSizes(files) == IF files = <<>> THEN 0 ELSE files[1][2] + SumSizes(Tail(files))

----------------------------------------------------------------------------
(* src/tree.rs: the two constructors of TreeNode. *)

\* the name of a node: the file name, or the whole path when it has none
NodeName(p) == IF file_name(p) = None THEN PathName[p] ELSE file_name(p).v

new_file(p, size) == [type |-> "File", name |-> NodeName(p), path |-> p, size |-> size]

new_directory(p) ==
    [type |-> "Directory", name |-> NodeName(p), path |-> p, children |-> <<>>,
     total_files |-> 0, total_size |-> 0, direct_files |-> 0, direct_size |-> 0]

----------------------------------------------------------------------------
(* process_directory_entries: what one worker of the par_iter decides for    *)
(* one entry.                                                               *)

\* faulty variant: the ignore list is never consulted
IsIgnored_Never(n, ignore_dirs) == FALSE

\* ignore_dirs.iter().any(|ignored| ignored == dir_name)
IsIgnored(n, ignore_dirs) == \E i \in 1..Len(ignore_dirs) : ignore_dirs[i] = n

\* faulty variant: no name counts as hidden
is_hidden_file_Never(n) == FALSE

\* s.starts_with('.')
is_hidden_file(n) == n # <<>> /\ n[1] = Dot

\* file_size < min_size
TooSmall(size, min_size) == size < min_size

\* ext.is_empty() || path.extension() == Some(ext)
ExtMatches(n, ext) == ext = <<>> \/ extension(n) = [type |-> "Some", v |-> ext]

\* the outcome of the closure for entry e: "file", "dir" or "skip"
Classify(e, c, nm) ==
    LET n == PathName[e] IN
    IF IsIgnored(n, c.ignore_dirs) THEN "skip"
    ELSE IF e \in nm THEN "skip"
    ELSE IF is_hidden_file(n) THEN "skip"
    ELSE IF e \in RegularFiles
         THEN IF TooSmall(FileLen[e], c.min_size) THEN "skip"
              ELSE IF ExtMatches(n, c.ext) THEN "file" ELSE "skip"
         ELSE "dir"

\* insertion of the pair x in a sorted list of (path, size) pairs, after its equals
RECURSIVE InsertFile(_, _)
InsertFile(x, s) ==
    IF s = <<>> THEN <<x>>
    ELSE IF PathLess(x[1], Head(s)[1]) THEN <<x>> \o s
    ELSE <<Head(s)>> \o InsertFile(x, Tail(s))

\* files.sort_by(|(a, _), (b, _)| a.file_name().cmp(&b.file_name()))
RECURSIVE sort_files(_)
sort_files(files) ==
    IF files = <<>> THEN <<>>
    ELSE InsertFile(files[Len(files)], sort_files(SubSeq(files, 1, Len(files) - 1)))

\* insertion of the path x in a sorted list of paths, after its equals
RECURSIVE InsertDir(_, _)
InsertDir(x, s) ==
    IF s = <<>> THEN <<x>>
    ELSE IF PathLess(x, Head(s)) THEN <<x>> \o s
    ELSE <<Head(s)>> \o InsertDir(x, Tail(s))

\* faulty variant: the directories are left in the order the workers pushed them
sort_dirs_Unsorted(dirs) == dirs

\* dirs.sort_by(|a, b| a.file_name().cmp(&b.file_name()))
RECURSIVE sort_dirs(_)
sort_dirs(dirs) ==
    IF dirs = <<>> THEN <<>>
    ELSE InsertDir(dirs[Len(dirs)], sort_dirs(SubSeq(dirs, 1, Len(dirs) - 1)))

----------------------------------------------------------------------------
(* build_directory_tree: one activation is one frame of the stack.          *)

\* fs::read_dir(dir_path) succeeds
Readable(p) == p \in present /\ p \in Directories /\ p \notin unreadable

\* the entries read_dir yields
ReadDir(p) == {e \in present : e # Root /\ Parent[e] = p}

NewFrame(p) ==
    [dir_path |-> p, at |-> "read_dir", entries |-> {}, crit |-> {},
     files |-> <<>>, dirs |-> <<>>,
     dir_node |-> new_directory(p), total_files |-> 0, total_size |-> 0,
     direct_files |-> 0, direct_size |-> 0]

Top == stack[Len(stack)]

SetTop(f) == [stack EXCEPT ![Len(stack)] = f]

Building == pc = "build" /\ stack # <<>>

RECURSIVE FileNodes(_)
FileNodes(files) ==
    IF files = <<>> THEN <<>>
    ELSE <<new_file(files[1][1], files[1][2])>> \o FileNodes(Tail(files))

\* let has_files = match &subdir_node { Directory { total_files, .. } => *total_files > 0, .. }
has_files(node) == node.type = "Directory" /\ node.total_files > 0

\* faulty variant: the subdirectory's bytes are not added to the parent's total
AttachSubdir_DropsSize(f, r) ==
    IF r # None /\ r.type = "Directory" /\ r.total_files > 0
    THEN [f EXCEPT !.at = "subdirs",
                   !.total_files = @ + r.total_files,
                   !.dir_node.children = Append(@, r)]
    ELSE [f EXCEPT !.at = "subdirs"]

\* the parent's frame after the call for one subdirectory returned r
AttachSubdir(f, r) ==
    IF r # None /\ has_files(r)
    THEN [f EXCEPT !.at = "subdirs",
                   !.total_files = @ + r.total_files,
                   !.total_size = @ + r.total_size,
                   !.dir_node.children = Append(@, r)]
    ELSE [f EXCEPT !.at = "subdirs"]

\* the node with its four statistics fields written
FinalNode(f) ==
    [f.dir_node EXCEPT !.total_files = f.total_files, !.total_size = f.total_size,
                       !.direct_files = f.direct_files, !.direct_size = f.direct_size]

\* faulty variant: the node is returned whether or not it has files
ReturnValue_Always(node) == node

\* Some(dir_node) only if it has files, directly or in subdirectories
ReturnValue(node) == IF node.total_files > 0 THEN node ELSE None

\* faulty variant: the error arm writes nothing
ErrDiag_Silent(d, p) == d

\* the error arm: what is written to the error stream
ErrDiag(d, p) == Append(d, p)

\* pop the innermost activation, handing r to its caller
Return(r) ==
    /\ stack' = SubSeq(stack, 1, Len(stack) - 1)
    /\ ret' = r
    /\ pc' = IF Len(stack) = 1 THEN "returned" ELSE pc

ReadDirOk ==
    /\ Building /\ Top.at = "read_dir"
    /\ Readable(Top.dir_path)
    /\ stack' = SetTop([Top EXCEPT !.at = "par_iter", !.entries = ReadDir(Top.dir_path)])
    /\ UNCHANGED <<present, unreadable, nometa, cfg, pc, ret, visited, diag, out, stats, mode, prev>>

ReadDirErr ==
    /\ Building /\ Top.at = "read_dir"
    /\ ~Readable(Top.dir_path)
    /\ diag' = ErrDiag(diag, Top.dir_path)
    /\ Return(None)
    /\ UNCHANGED <<present, unreadable, nometa, cfg, visited, out, stats, mode, prev>>

\* faulty variant: lock() never waits
LockFree_Always(f, k) == TRUE

\* the mutex of collection k ("file": files, "dir": dirs) is held by no worker
LockFree(f, k) == \A c \in f.crit : c.kind # k

\* the element a worker appends for entry e
Pushed(e, k) == IF k = "file" THEN <<e, FileLen[e]>> ELSE e

\* one worker runs the closure on entry e up to its return or its lock(): a
\* rejected entry is done; a kept one waits for the mutex of its collection and,
\* holding it, reads the vector it is about to extend
Worker(e) ==
    /\ Building /\ Top.at = "par_iter"
    /\ e \in Top.entries
    /\ LET k == Classify(e, cfg, nometa)
           f == [Top EXCEPT !.entries = @ \ {e}]
       IN IF k \in {"file", "dir"}
          THEN /\ LockFree(Top, k)
               /\ stack' = SetTop([f EXCEPT !.crit = @ \cup
                    {[entry |-> e, kind |-> k,
                      snap |-> IF k = "file" THEN Top.files ELSE Top.dirs]}])
          ELSE stack' = SetTop(f)
    /\ UNCHANGED <<present, unreadable, nometa, cfg, pc, ret, visited, diag, out, stats, mode, prev>>

\* the worker holding a mutex pushes its element and drops the guard
Push(e) ==
    /\ Building /\ Top.at = "par_iter"
    /\ \E c \in Top.crit :
         /\ c.entry = e
         /\ LET f == [Top EXCEPT !.crit = @ \ {c}]
                v == Append(c.snap, Pushed(e, c.kind))
            IN stack' = SetTop(IF c.kind = "file" THEN [f EXCEPT !.files = v]
                                                  ELSE [f EXCEPT !.dirs = v])
    /\ UNCHANGED <<present, unreadable, nometa, cfg, pc, ret, visited, diag, out, stats, mode, prev>>

\* every worker has finished: sort, count the direct files, wrap them as leaves
Collect ==
    /\ Building /\ Top.at = "par_iter"
    /\ Top.entries = {} /\ Top.crit = {}
    /\ LET files == sort_files(Top.files)
           dirs == sort_dirs(Top.dirs)
       IN stack' = SetTop([Top EXCEPT
            !.at = "subdirs", !.files = files, !.dirs = dirs,
            !.direct_files = Len(files), !.direct_size = SumSizes(files),
            !.total_files = Len(files), !.total_size = SumSizes(files),
            !.dir_node.children = FileNodes(files)])
    /\ UNCHANGED <<present, unreadable, nometa, cfg, pc, ret, visited, diag, out, stats, mode, prev>>

\* for subdir_path in dirs: the recursive call
Recurse ==
    /\ Building /\ Top.at = "subdirs"
    /\ Top.dirs # <<>>
    /\ stack' = Append(SetTop([Top EXCEPT !.at = "wait", !.dirs = Tail(@)]),
                       NewFrame(Head(Top.dirs)))
    /\ visited' = visited \cup {Head(Top.dirs)}
    /\ UNCHANGED <<present, unreadable, nometa, cfg, pc, ret, diag, out, stats, mode, prev>>

\* the recursive call returned
Attach ==
    /\ Building /\ Top.at = "wait"
    /\ ret # NoRet
    /\ stack' = SetTop(AttachSubdir(Top, ret))
    /\ ret' = NoRet
    /\ UNCHANGED <<present, unreadable, nometa, cfg, pc, visited, diag, out, stats, mode, prev>>

\* the loop is over: write the statistics and return
Finish ==
    /\ Building /\ Top.at = "subdirs"
    /\ Top.dirs = <<>>
    /\ Return(ReturnValue(FinalNode(Top)))
    /\ UNCHANGED <<present, unreadable, nometa, cfg, visited, diag, out, stats, mode, prev>>

----------------------------------------------------------------------------
(* src/list_files.rs: print_tree. *)

ZeroStats == [total_files |-> 0, total_dirs |-> 0, total_bytes |-> 0]

\* generate_tree_prefix: one piece per ancestor level, then the connector
generate_tree_prefix(is_last_items) ==
    [i \in 1..Len(is_last_items) |->
        IF i < Len(is_last_items)
        THEN (IF is_last_items[i] THEN "    " ELSE "|   ")
        ELSE (IF is_last_items[i] THEN "\\-- " ELSE "|-- ")]

\* children.iter().filter(|child| matches!(child, TreeNode::File { .. })).count()
RECURSIVE CountFiles(_)
CountFiles(children) ==
    IF children = <<>> THEN 0
    ELSE (IF children[1].type = "File" THEN 1 ELSE 0) + CountFiles(Tail(children))

RECURSIVE print_tree(_, _, _, _)
RECURSIVE print_children(_, _, _, _, _)

\* acc = [out, stats]: the output written so far and the local FileStats
print_tree(node, is_last_items, acc, include_children) ==
    IF node.type = "Directory"
    THEN LET shown_files == IF include_children THEN node.total_files ELSE node.direct_files
             shown_size == IF include_children THEN node.total_size ELSE node.direct_size
             line == [prefix |-> generate_tree_prefix(is_last_items), name |-> node.name,
                      files |-> shown_files, size |-> shown_size, path |-> node.path]
             st == [total_dirs |-> acc.stats.total_dirs + 1,
                    total_files |-> acc.stats.total_files + CountFiles(node.children),
                    total_bytes |-> acc.stats.total_bytes + node.total_size]
         IN print_children(node.children, 1, is_last_items,
                           [out |-> Append(acc.out, line), stats |-> st], include_children)
    ELSE acc

\* for (idx, child) in children.iter().enumerate()
print_children(children, i, is_last_items, acc, include_children) ==
    IF i > Len(children) THEN acc
    ELSE print_children(children, i + 1, is_last_items,
            print_tree(children[i], Append(is_last_items, i = Len(children)), acc,
                       include_children),
            include_children)

----------------------------------------------------------------------------
(* src/print.rs: print_tree_num and print_tree_file. Their TreeNode keeps    *)
(* the kept files and the kept subdirectories of a directory in two lists.   *)

\* Directory { files, .. }
RECURSIVE NodeFiles(_)
NodeFiles(children) ==
    IF children = <<>> THEN <<>>
    ELSE (IF children[1].type = "File" THEN <<children[1]>> ELSE <<>>)
         \o NodeFiles(Tail(children))

\* Directory { dirs, .. }
RECURSIVE NodeDirs(_)
NodeDirs(children) ==
    IF children = <<>> THEN <<>>
    ELSE (IF children[1].type = "Directory" THEN <<children[1]>> ELSE <<>>)
         \o NodeDirs(Tail(children))

\* faulty variant: the cumulative file count is added for every directory
num_stats_Cumulative(st, node) ==
    [total_dirs |-> st.total_dirs + 1,
     total_files |-> st.total_files + node.total_files,
     total_bytes |-> st.total_bytes + node.total_size]

\* print_tree_num, "Update statistics"
num_stats(st, node) ==
    [total_dirs |-> st.total_dirs + 1,
     total_files |-> st.total_files + Len(NodeFiles(node.children)),
     total_bytes |-> st.total_bytes + node.total_size]

\* let is_last = idx == dirs.len() - 1 (idx counts from 0)
is_last_dir(idx, dirs) == idx = Len(dirs) - 1

RECURSIVE print_tree_num(_, _, _, _)
RECURSIVE print_num_dirs(_, _, _, _, _)

print_tree_num(node, is_last_items, acc, include_children) ==
    IF node.type = "Directory"
    THEN LET shown_files == IF include_children THEN node.total_files ELSE node.direct_files
             shown_size == IF include_children THEN node.total_size ELSE node.direct_size
             line == [prefix |-> generate_tree_prefix(is_last_items), name |-> node.name,
                      files |-> shown_files, size |-> shown_size, path |-> node.path]
         IN print_num_dirs(NodeDirs(node.children), 0, is_last_items,
                           [out |-> Append(acc.out, line), stats |-> num_stats(acc.stats, node)],
                           include_children)
    ELSE acc

\* for (idx, child) in dirs.iter().enumerate()
print_num_dirs(dirs, idx, is_last_items, acc, include_children) ==
    IF idx >= Len(dirs) THEN acc
    ELSE print_num_dirs(dirs, idx + 1, is_last_items,
            print_tree_num(dirs[idx + 1], Append(is_last_items, is_last_dir(idx, dirs)), acc,
                           include_children),
            include_children)

\* faulty variant: the position is compared with the number of files alone
is_last_item_FilesOnly(current_idx, n_files, n_dirs) == current_idx = n_files - 1

\* let total_items = files.len() + dirs.len(); let is_last = current_idx == total_items - 1
is_last_item(current_idx, n_files, n_dirs) == current_idx = (n_files + n_dirs) - 1

RECURSIVE print_tree_file(_, _, _)
RECURSIVE print_file_items(_, _, _, _, _)

\* a directory line shows no file count: files is -1 on it
print_tree_file(node, is_last_items, acc) ==
    IF node.type = "Directory"
    THEN LET line == [prefix |-> generate_tree_prefix(is_last_items), name |-> node.name,
                      files |-> -1, size |-> node.total_size, path |-> node.path]
             st == [total_dirs |-> acc.stats.total_dirs + 1,
                    total_files |-> acc.stats.total_files,
                    total_bytes |-> acc.stats.total_bytes + node.total_size]
             files == NodeFiles(node.children)
             dirs == NodeDirs(node.children)
         IN print_file_items(files \o dirs, 0, Len(files), is_last_items,
                             [out |-> Append(acc.out, line), stats |-> st])
    ELSE LET line == [prefix |-> generate_tree_prefix(is_last_items), name |-> node.name,
                      files |-> -1, size |-> node.size, path |-> node.path]
             st == [total_dirs |-> acc.stats.total_dirs,
                    total_files |-> acc.stats.total_files + 1,
                    total_bytes |-> acc.stats.total_bytes + node.size]
         IN [out |-> Append(acc.out, line), stats |-> st]

\* the two loops, "for file in files" then "for dir in dirs", sharing current_idx
print_file_items(items, current_idx, n_files, is_last_items, acc) ==
    IF current_idx >= Len(items) THEN acc
    ELSE print_file_items(items, current_idx + 1, n_files, is_last_items,
            print_tree_file(items[current_idx + 1],
                Append(is_last_items,
                       is_last_item(current_idx, n_files, Len(items) - n_files)),
                acc))

----------------------------------------------------------------------------
(* list_files. *)

Modes == {"print_tree", "print_tree_num", "print_tree_file"}

\* the renderer the flags select
Render(m, node, acc, include_children) ==
    CASE m = "print_tree_num" -> print_tree_num(node, <<>>, acc, include_children)
      [] m = "print_tree_file" -> print_tree_file(node, <<>>, acc)
      [] OTHER -> print_tree(node, <<>>, acc, include_children)

\* faulty variant: a None result is still counted as one visited directory
AfterBuild_CountsNone(m, r, o, st, include_children) ==
    IF r # None
    THEN LET local == Render(m, r, [out |-> o, stats |-> ZeroStats], include_children)
         IN [out |-> local.out,
             stats |-> [total_files |-> st.total_files + local.stats.total_files,
                        total_dirs |-> st.total_dirs + local.stats.total_dirs,
                        total_bytes |-> st.total_bytes + local.stats.total_bytes]]
    ELSE [out |-> o, stats |-> [st EXCEPT !.total_dirs = @ + 1]]

\* list_files after build_directory_tree returned r: the output and the shared stats
AfterBuild(m, r, o, st, include_children) ==
    IF r # None
    THEN LET local == Render(m, r, [out |-> o, stats |-> ZeroStats], include_children)
         IN [out |-> local.out,
             stats |-> [total_files |-> st.total_files + local.stats.total_files,
                        total_dirs |-> st.total_dirs + local.stats.total_dirs,
                        total_bytes |-> st.total_bytes + local.stats.total_bytes]]
    ELSE [out |-> o, stats |-> st]

\* list_files calls build_directory_tree(indir, ...)
ListFilesCall ==
    /\ pc = "list_files"
    /\ pc' = "build"
    /\ stack' = <<NewFrame(Root)>>
    /\ visited' = visited \cup {Root}
    /\ UNCHANGED <<present, unreadable, nometa, cfg, ret, diag, out, stats, mode, prev>>

\* the build returned Some(tree): render it with m and add the local stats to the
\* shared ones; a run keeps the renderer its flags selected
RenderWith(m) ==
    /\ pc = "returned" /\ ret # None
    /\ mode \in {"unset", m}
    /\ mode' = m
    /\ LET a == AfterBuild(m, ret, out, stats, cfg.include_children)
       IN out' = a.out /\ stats' = a.stats
    /\ pc' = "done"
    /\ UNCHANGED <<present, unreadable, nometa, cfg, stack, ret, visited, diag, prev>>

\* if let Some(tree) = ... { print_tree(&tree, ...) }
ListFilesSome == RenderWith("print_tree")

\* stats-only mode: print_tree_num
ListFilesNum == RenderWith("print_tree_num")

\* full mode: print_tree_file
ListFilesFile == RenderWith("print_tree_file")

\* the build returned None
ListFilesNone ==
    /\ pc = "returned" /\ ret = None
    /\ LET a == AfterBuild("print_tree", ret, out, stats, cfg.include_children)
       IN out' = a.out /\ stats' = a.stats
    /\ pc' = "done"
    /\ UNCHANGED <<present, unreadable, nometa, cfg, stack, ret, visited, diag, mode, prev>>

\* p or one of its ancestors is in S
Under(p, S) == p \in S \/ Ancestors(p) \cap S # {}

\* the unreadable directories are removed from the disk and the tool runs again
RemoveUnreadableAndRerun ==
    /\ pc = "done" /\ prev = NoRet
    /\ unreadable # {}
    /\ prev' = [type |-> "Run", tree |-> ret, out |-> out, stats |-> stats,
                unreadable |-> unreadable, visited |-> visited, diag |-> diag]
    /\ present' = {p \in present : ~Under(p, unreadable)}
    /\ unreadable' = {}
    /\ pc' = "list_files"
    /\ stack' = <<>>
    /\ ret' = NoRet
    /\ visited' = {}
    /\ diag' = <<>>
    /\ out' = <<>>
    /\ stats' = ZeroStats
    /\ UNCHANGED <<nometa, cfg, mode>>

----------------------------------------------------------------------------

Init ==
    /\ present = Paths
    /\ unreadable \in {S \in SUBSET Directories : Cardinality(S) <= MaxUnreadable}
    /\ nometa \in SUBSET BrokenLinks
    /\ cfg \in [ext : Exts, ignore_dirs : IgnoreLists, min_size : 0..MaxMinSize,
                max_size : MaxSizes, max_depth : MaxDepths,
                include_children : BOOLEAN]
    /\ pc = "list_files"
    /\ stack = <<>>
    /\ ret = NoRet
    /\ visited = {}
    /\ diag = <<>>
    /\ out = <<>>
    /\ stats = ZeroStats
    /\ mode = "unset"
    /\ prev = NoRet

Next ==
    \/ ListFilesCall
    \/ ReadDirOk
    \/ ReadDirErr
    \/ \E e \in Paths : Worker(e)
    \/ \E e \in Paths : Push(e)
    \/ Collect
    \/ Recurse
    \/ Attach
    \/ Finish
    \/ ListFilesSome
    \/ ListFilesNum
    \/ ListFilesFile
    \/ ListFilesNone
    \/ RemoveUnreadableAndRerun

Spec == Init /\ [][Next]_vars

----------------------------------------------------------------------------
(* Reading the trees of a state. *)

Range(s) == {s[i] : i \in 1..Len(s)}

\* every node of the tree rooted at n, n included
RECURSIVE NodesOf(_)
NodesOf(n) ==
    IF n.type = "Directory"
    THEN {n} \cup UNION {NodesOf(n.children[i]) : i \in 1..Len(n.children)}
    ELSE {n}

\* the trees build_directory_tree has returned: the last return value, and the
\* subtrees already attached to the nodes under construction
ReturnedTrees ==
    (IF ret.type = "Directory" THEN {ret} ELSE {})
    \cup UNION {{c \in Range(stack[i].dir_node.children) : c.type = "Directory"} :
                i \in 1..Len(stack)}

ReturnedDirs == {n \in UNION {NodesOf(t) : t \in ReturnedTrees} : n.type = "Directory"}

FileChildren(d) == SelectSeq(d.children, LAMBDA c : c.type = "File")
DirChildren(d) == SelectSeq(d.children, LAMBDA c : c.type = "Directory")

RECURSIVE SumOf(_, _)
SumOf(F(_), s) == IF s = <<>> THEN 0 ELSE F(Head(s)) + SumOf(F, Tail(s))

NodeSize(n) == n.size
NodeTotalFiles(n) == n.total_files
NodeTotalSize(n) == n.total_size

\* the finished tree of a run
Done == pc = "done"
HasTree == Done /\ ret.type = "Directory"

----------------------------------------------------------------------------
(* C1: in every Directory node returned by build_directory_tree, at any      *)
(* nesting level, direct_files and direct_size are the count and the byte    *)
(* sum of its File children, total_files = direct_files + the sum of         *)
(* total_files of its Directory children, and total_size = direct_size +     *)
(* the sum of their total_size.                                              *)
C1_TotalsAreDirectPlusChildren ==
    \A d \in ReturnedDirs :
        /\ d.direct_files = Len(FileChildren(d))
        /\ d.direct_size = SumOf(NodeSize, FileChildren(d))
        /\ d.total_files = d.direct_files + SumOf(NodeTotalFiles, DirChildren(d))
        /\ d.total_size = d.direct_size + SumOf(NodeTotalSize, DirChildren(d))

\* a finished tree three levels deep whose root has direct files and retained children
C1_Witness ==
    /\ HasTree
    /\ ret.direct_files > 0
    /\ \E c \in Range(DirChildren(ret)) : DirChildren(c) # <<>> /\ c.direct_files > 0

----------------------------------------------------------------------------
(* What the disk and the filters say, independently of the walk. *)

\* the files of d's subtree that pass the filters and can be reached from d
\* through kept, readable directories
KeptFilesBelow(d) ==
    IF ~Readable(d) THEN {}
    ELSE {f \in present \cap RegularFiles :
            /\ d \in Ancestors(f)
            /\ Classify(f, cfg, nometa) = "file"
            /\ \A a \in (Ancestors(f) \ Ancestors(d)) \ {d} :
                 Classify(a, cfg, nometa) = "dir" /\ Readable(a)}

\* the Directory nodes of the finished tree
FinalDirs == IF HasTree THEN {n \in NodesOf(ret) : n.type = "Directory"} ELSE {}

\* the File leaves below a node
LeafFiles(n) == {x \in NodesOf(n) : x.type = "File"}

RECURSIVE SetSum(_, _)
SetSum(F(_), S) ==
    IF S = {} THEN 0 ELSE LET x == CHOOSE y \in S : TRUE IN F(x) + SetSum(F, S \ {x})

Ascending(names) ==
    \A i \in 1..(Len(names) - 1) : ~NameLess(names[i + 1], names[i])

NamesOf(nodes) == [i \in 1..Len(nodes) |-> nodes[i].name]
NamesOfPaths(paths) == [i \in 1..Len(paths) |-> PathName[paths[i]]]
NamesOfFiles(files) == [i \in 1..Len(files) |-> PathName[files[i][1]]]

StartsWithDot(p) == PathName[p] # <<>> /\ PathName[p][1] = Dot

----------------------------------------------------------------------------
(* C2: a call of build_directory_tree returns None exactly when no kept file *)
(* exists anywhere in the directory's subtree; every Directory node of a     *)
(* returned tree has total_files > 0 and kept files below it; and the        *)
(* rendered directory lines are exactly the Directory nodes of the finished   *)
(* tree.                                                                     *)
C2_ReturnedDirsHaveFiles ==
    /\ \A d \in ReturnedDirs : d.total_files > 0 /\ KeptFilesBelow(d.path) # {}
    /\ Done => LET dirlines == {i \in 1..Len(out) : out[i].path \in Directories}
               IN /\ Cardinality(dirlines) = Cardinality(FinalDirs)
                  /\ \A i \in dirlines :
                       \E d \in FinalDirs : d.path = out[i].path /\ d.name = out[i].name

C2_NoneIffNothingKept ==
    Len(stack') < Len(stack) => ((ret' = None) <=> (KeptFilesBelow(Top.dir_path) = {}))

\* C2: a call returns None exactly when nothing is kept below its directory, every
\* returned Directory node has total_files > 0, and only the tree's directories are rendered
C2_Pruning == [](C2_ReturnedDirsHaveFiles) /\ [][C2_NoneIffNothingKept]_vars

\* a finished tree from which a scanned, readable directory was pruned
C2_Witness ==
    /\ HasTree
    /\ \E d \in visited \ {Root} :
         /\ Readable(d)
         /\ KeptFilesBelow(d) = {}
         /\ \A n \in NodesOf(ret) : n.path # d

----------------------------------------------------------------------------
(* C3: whatever the order in which the workers push, the files and the       *)
(* directories process_directory_entries returns are sorted by file name     *)
(* ascending, and so are the File children and the Directory children of     *)
(* every tree node.                                                          *)
C3_SortedByName ==
    /\ \A i \in 1..Len(stack) :
         stack[i].at \in {"subdirs", "wait"} =>
            /\ Ascending(NamesOfFiles(stack[i].files))
            /\ Ascending(NamesOfPaths(stack[i].dirs))
    /\ \A d \in ReturnedDirs :
         /\ Ascending(NamesOf(FileChildren(d)))
         /\ Ascending(NamesOf(DirChildren(d)))

\* a finished tree with a node of two files and a node of two directories
C3_Witness ==
    /\ HasTree
    /\ \E d \in FinalDirs : Len(FileChildren(d)) >= 2
    /\ \E d \in FinalDirs : Len(DirChildren(d)) >= 2

----------------------------------------------------------------------------
----------------------------------------------------------------------------
(* C5: a non-hidden regular file whose name is in the ignored-directory set  *)
(* and which passes the size and extension filters is among the kept files   *)
(* of its directory once the directory's entries have been classified.       *)
NameIgnored(p) == \E i \in 1..Len(cfg.ignore_dirs) : cfg.ignore_dirs[i] = PathName[p]

PassesFileFilters(e) ==
    /\ e \in RegularFiles /\ e \notin nometa
    /\ ~StartsWithDot(e)
    /\ FileLen[e] >= cfg.min_size
    /\ (cfg.ext = <<>> \/ extension(PathName[e]) = [type |-> "Some", v |-> cfg.ext])

C5_FileWithIgnoredNameKept ==
    \A i \in 1..Len(stack) :
        stack[i].at \in {"subdirs", "wait"} =>
            \A e \in ReadDir(stack[i].dir_path) :
                (PassesFileFilters(e) /\ NameIgnored(e)) =>
                    <<e, FileLen[e]>> \in Range(stack[i].files)

----------------------------------------------------------------------------
(* C6: build_directory_tree is never invoked on a directory whose name is in *)
(* the ignored-directory set nor on anything below it, no node of a returned *)
(* tree lies in or below such a directory, and every node's totals are the   *)
(* count and the byte sum of the File leaves of its own subtree.             *)
IgnoredDirs == {d \in (present \cap Directories) \ {Root} : NameIgnored(d)}

C6_IgnoredDirSkipped ==
    /\ \A p \in visited : ~Under(p, IgnoredDirs)
    /\ \A t \in ReturnedTrees : \A n \in NodesOf(t) : ~Under(n.path, IgnoredDirs)
    /\ \A d \in ReturnedDirs :
         /\ d.total_files = Cardinality(LeafFiles(d))
         /\ d.total_size = SetSum(NodeSize, LeafFiles(d))

\* a finished tree beside an ignored directory whose parent was scanned and
\* which holds files passing the filters
C6_Witness ==
    /\ HasTree
    /\ \E d \in IgnoredDirs :
         /\ Parent[d] \in visited /\ Readable(Parent[d]) /\ d \notin unreadable
         /\ \E f \in ReadDir(d) : PassesFileFilters(f)

----------------------------------------------------------------------------
(* C7: every File leaf of a returned tree has a size between the configured  *)
(* minimum and the configured maximum.                                       *)
C7_LeafSizeWithinBounds ==
    \A t \in ReturnedTrees : \A n \in LeafFiles(t) :
        cfg.min_size <= n.size /\ n.size <= cfg.max_size

----------------------------------------------------------------------------
(* C8: with a configured max depth N > 0 no directory deeper than N levels   *)
(* below the root is ever scanned.                                           *)
C8_DepthLimit ==
    cfg.max_depth > 0 => \A p \in visited : Depth(p) <= cfg.max_depth

----------------------------------------------------------------------------
(* C9: a call on a directory read_dir fails on writes one diagnostic and     *)
(* returns None, leaving its caller's activation as it was; the error stream *)
(* holds one line per failed directory; the build is never stuck before the  *)
(* root call has returned; and the tree, the output and the statistics of   *)
(* the run are those of the run made after the unreadable directories have   *)
(* been removed from the disk.                                               *)
AtReadDir == {stack[i].dir_path : i \in {j \in 1..Len(stack) : stack[j].at = "read_dir"}}

C9_ErrorStep ==
    (Building /\ Top.at = "read_dir" /\ ~Readable(Top.dir_path)) =>
        /\ diag' = Append(diag, Top.dir_path)
        /\ ret' = None
        /\ stack' = SubSeq(stack, 1, Len(stack) - 1)
        /\ UNCHANGED <<out, stats>>

C9_State ==
    /\ Len(diag) = Cardinality({p \in visited \ AtReadDir : ~Readable(p)})
    /\ Range(diag) = {p \in visited \ AtReadDir : ~Readable(p)}
    /\ pc = "build" => ENABLED Next
    /\ (Done /\ prev # NoRet) =>
          /\ ret = prev.tree
          /\ out = prev.out
          /\ stats = prev.stats

\* C9: an unreadable directory costs one diagnostic and no node, the run completes,
\* and its results are those of the run without the unreadable directories
C9_UnreadableIsLocal == [](C9_State) /\ [][C9_ErrorStep]_vars

\* the second run has finished with a tree; in the first, a directory with a
\* retained sibling was unreadable and its diagnostic was written
C9_Witness ==
    /\ Done /\ prev # NoRet
    /\ ret.type = "Directory"
    /\ \E u \in prev.unreadable :
         /\ u \in Range(prev.diag)
         /\ \E n \in FinalDirs : n.path # Root /\ Parent[n.path] = Parent[u]

----------------------------------------------------------------------------
(* C10: when the root build returned None, list_files has written no line    *)
(* and the shared statistics are all zero.                                   *)
C10_NoneRendersNothing ==
    (Done /\ ret = None) => (out = <<>> /\ stats = ZeroStats)

\* the root was read, nothing survived the filters, list_files has finished
C10_Witness ==
    /\ Done /\ ret = None
    /\ Readable(Root) /\ diag = <<>>
    /\ ReadDir(Root) # {}

----------------------------------------------------------------------------
(* C11: in a finished rendering, stats-only or full, the line of a rendered  *)
(* child ends its prefix with the corner connector exactly when the child's  *)
(* position among its siblings, files first and then directories, counted    *)
(* from 0, is file-count + directory-count - 1; the prefix has one piece per *)
(* level; and at every level with a rendered child exactly one rendered      *)
(* child, the final one, carries the corner.                                 *)
Corner == "\\-- "

\* the siblings of a level in visiting order
Siblings(d) == FileChildren(d) \o DirChildren(d)

\* the positions (from 1) of the siblings the renderer of this run prints
Rendered(d) ==
    {k \in 1..Len(Siblings(d)) :
        mode = "print_tree_file" \/ Siblings(d)[k].type = "Directory"}

\* the lines written for the node at path p
LinesOf(p) == {i \in 1..Len(out) : out[i].path = p}

\* the positions of the rendered siblings whose line carries the corner
MarkedLast(d) ==
    {k \in Rendered(d) :
        \E i \in LinesOf(Siblings(d)[k].path) :
            out[i].prefix # <<>> /\ out[i].prefix[Len(out[i].prefix)] = Corner}

C11_LastFlagFromCombinedPosition ==
    HasTree =>
        \A d \in FinalDirs :
            LET n_files == Len(FileChildren(d))
                n_dirs == Len(DirChildren(d))
            IN /\ \A k \in Rendered(d) :
                    /\ Cardinality(LinesOf(Siblings(d)[k].path)) = 1
                    /\ \A i \in LinesOf(Siblings(d)[k].path) :
                         Len(out[i].prefix) = Depth(Siblings(d)[k].path)
                    /\ (k \in MarkedLast(d)) <=> (k - 1 = n_files + n_dirs - 1)
               /\ Rendered(d) # {} =>
                    /\ Cardinality(MarkedLast(d)) = 1
                    /\ \A k \in MarkedLast(d) : \A j \in Rendered(d) : j <= k

\* a full rendering of a level with a kept file and two kept directories: the
\* corner is on the second directory, the third sibling
C11_Witness ==
    /\ HasTree /\ mode = "print_tree_file"
    /\ \E d \in FinalDirs :
         /\ Len(FileChildren(d)) >= 1
         /\ Len(DirChildren(d)) >= 2
         /\ MarkedLast(d) = {Len(Siblings(d))}

----------------------------------------------------------------------------
(* C12: after a tree has been rendered in stats-only or in full mode, the    *)
(* byte counter of the statistics equals the root node's total_size, the     *)
(* byte sum of the kept files, each counted once.                            *)
C12_BytesEqualRootTotal ==
    (HasTree /\ mode \in {"print_tree_num", "print_tree_file"}) =>
        /\ stats.total_bytes = ret.total_size
        /\ stats.total_bytes = SetSum(NodeSize, LeafFiles(ret))

----------------------------------------------------------------------------
(* C13: after a tree has been rendered, by any renderer, the file counter of *)
(* the statistics equals the root node's total_files, which is the number of *)
(* File leaves of the tree, and the directory counter equals the number of   *)
(* Directory nodes of the tree, the root included.                           *)
C13_FilesAndDirsCountedOnce ==
    HasTree =>
        /\ stats.total_files = ret.total_files
        /\ stats.total_files = Cardinality(LeafFiles(ret))
        /\ stats.total_dirs = Cardinality(FinalDirs)

\* a stats-only rendering of a tree three directories tall with files at two
\* levels or more
C13_Witness ==
    /\ HasTree /\ mode = "print_tree_num"
    /\ Cardinality(FinalDirs) >= 3
    /\ \E d \in FinalDirs : d.path # Root /\ d.direct_files >= 1 /\ d.total_files > d.direct_files
    /\ stats.total_dirs = Cardinality(FinalDirs)

----------------------------------------------------------------------------
(* C14: while the workers of one directory run, in whatever order, the files *)
(* vector and the dirs vector hold exactly the entries whose worker has      *)
(* finished and that the filters keep, each once, with a file's size beside  *)
(* it; what an entry is classified as is decided by the entry, the disk and  *)
(* the configuration alone; a mutex has one holder at most; and the vectors  *)
(* are taken out and sorted only when every worker has finished, so they     *)
(* then hold every kept entry of the directory.                              *)
ParIterFrames == {i \in 1..Len(stack) : stack[i].at = "par_iter"}

\* the entries of frame f whose worker has returned
Finished(f) == (ReadDir(f.dir_path) \ f.entries) \ {c.entry : c \in f.crit}

\* the entries of S the filters keep as k
KeptAs(S, k) == {e \in S : Classify(e, cfg, nometa) = k}

\* s lists the elements of S, each once
ListsOnce(s, S) == Len(s) = Cardinality(S) /\ Range(s) = S

C14_Collections ==
    \A i \in ParIterFrames :
        LET f == stack[i]
        IN /\ f.entries \subseteq ReadDir(f.dir_path)
           /\ ListsOnce(f.files, {<<e, FileLen[e]>> : e \in KeptAs(Finished(f), "file")})
           /\ ListsOnce(f.dirs, KeptAs(Finished(f), "dir"))
           /\ \A c \in f.crit : Classify(c.entry, cfg, nometa) = c.kind
           /\ \A c1, c2 \in f.crit : c1.kind = c2.kind => c1 = c2

\* the step that takes the vectors out of their mutexes
C14_ReadAfterJoin ==
    (Building /\ Top.at = "par_iter" /\ Len(stack') = Len(stack)
        /\ stack'[Len(stack)].at # "par_iter") =>
        LET f == stack'[Len(stack)]
            all == ReadDir(Top.dir_path)
        IN /\ Top.entries = {} /\ Top.crit = {}
           /\ ListsOnce(f.files, {<<e, FileLen[e]>> : e \in KeptAs(all, "file")})
           /\ ListsOnce(f.dirs, KeptAs(all, "dir"))

C14_WorkersLoseNothing == [](C14_Collections) /\ [][C14_ReadAfterJoin]_vars

\* two directory entries are kept: one worker has pushed, the other holds the
\* mutex of dirs, and a third worker is yet to start
C14_Witness ==
    \E i \in ParIterFrames :
        /\ Len(stack[i].dirs) = 1
        /\ \E c \in stack[i].crit : c.kind = "dir" /\ c.snap = stack[i].dirs
        /\ stack[i].entries # {}

====
